---- MODULE Spec2Model ----
(***************************************************************************)
(* Verification model of the english-learning-app frontend core:           *)
(*   - ConversationManager (src/unnamed/part_003): the conversation        *)
(*     session, its chat / speech-to-text requests and the leave paths;    *)
(*   - ProgressTracker (src/unnamed/part_005): the SM-2 spaced-repetition  *)
(*     scheduler.                                                          *)
(* JavaScript runs one task at a time: every action below is one task of   *)
(* the event loop (an event handler up to its first await, or the          *)
(* continuation that runs when an awaited request has settled).            *)
(***************************************************************************)
EXTENDS Integers, Sequences, FiniteSets, TLC

(***************************************************************************)
(* Bounds of the model.                                                    *)
(***************************************************************************)
MaxRequests == 4      \* requests issued in one run, plus confirmation modals open
MaxReviews == 4       \* spaced-repetition reviews explored
MaxItems == 1         \* spaced-repetition items explored
MaxDay == 1           \* days the clock advances
MaxLongReviews == 6   \* reviews of the long review runs
MaxDueItems == 2      \* items, reviews and days of the due-list runs
MaxDueReviews == 2
MaxDueDay == 2
MaxProgressCalls == 4 \* calls of the progress operations in one run
MaxStreakDay == 8     \* days and calls of the streak runs
MaxStreakCalls == 9
MaxAIRequests == 3         \* makeAIRequest calls of the AIManager
MaxAIClock == 2            \* seconds the AIManager's clock runs without a block
MaxAIRejections == 1       \* 429 responses the server gives
MaxAIClears == 1           \* clearRequestQueue calls
MaxRateLimitMinutes == 8   \* minutes the rate limiter's clock runs

(***************************************************************************)
(* Texts.  A text is a sequence of lexical units: SP is one white-space    *)
(* character, every other unit is a run of non-white-space characters.     *)
(***************************************************************************)
SP == " "

RECURSIVE TrimLeft(_)
TrimLeft(s) == IF s # <<>> /\ Head(s) = SP THEN TrimLeft(Tail(s)) ELSE s

RECURSIVE TrimRight(_)
TrimRight(s) ==
    IF s # <<>> /\ s[Len(s)] = SP THEN TrimRight(SubSeq(s, 1, Len(s) - 1)) ELSE s

\* String.prototype.trim
trim(s) == TrimRight(TrimLeft(s))

\* String.prototype.includes, for a needle that is one lexical unit
includes(s, unit) == \E i \in 1..Len(s) : s[i] = unit

\* what the learner can have typed into #user-input
TypedTexts == {<<SP>>, <<SP, "hello", SP>>}

\* ai_response values of a successful /api/chat reply (<<>> is a missing or
\* empty ai_response)
AiResponses == {<<>>, <<"Good!">>, <<"Good!", SP, "LESSON_COMPLETE">>}

\* text values of a successful /api/stt/stop reply
Transcripts == {<<>>, <<SP>>, <<"hello">>, <<"LEGAL">>, <<"LEGAL", SP>>}

TopicIds == {"greetings"}

WelcomeMessage == <<"Welcome">>
CouldNotProcessMessage == <<"I'm sorry, I couldn't process that.">>
CannotConnectMessage == <<"Cannot connect to the AI service.">>
ServerErrorMessage == <<"Server error occurred.">>
ConnectionErrorMessage == <<"Connection error.">>
CongratsMessage == <<"Excellent work!">>

(***************************************************************************)
(* State.                                                                  *)
(***************************************************************************)
VARIABLES
    screen,                \* the screen shown: "dashboard" or "conversation"
    currentTopic,          \* ConversationManager fields
    conversationStartTime,
    messages,
    messageCount,
    isListening,
    recordingActive,
    isTutorTyping,
    tutorHasGreeted,
    conversationComplete,
    inputDisabled,         \* disabled attribute of the input and its buttons
    userInput,             \* value of #user-input
    modals,                \* number of .completion-warning-modal elements
    network,               \* requests in flight whose continuation changes state
    chatPosts,             \* number of POST /api/chat issued
    sttStartPosts,         \* number of POST /api/stt/start issued
    sttStopPosts,          \* number of POST /api/stt/stop issued
    endPosts,              \* POST /api/chat/session/end issued, by session
    progressPosts,         \* POST /api/progress issued, by session
    lastOp,                \* whether the last task was a call that was turned down
    items,                 \* ProgressTracker.spacedRepetitionData.items
    reviewLog,             \* per item, the reviews made and what each left
    now,                   \* the clock (new Date()), in days
    dueItems,              \* ids last returned by getDueSpacedRepetitionItems
    progress,              \* ProgressTracker.progress
    streakData,            \* ProgressTracker.streakData
    topicsCurrentTopic,    \* TopicsManager.currentTopic, by its id
    storage,               \* localStorage: the saved progress and streak_data
    activityDays,          \* the days on which activity was recorded
    progressCalls,         \* number of progress operations called
    badgesConfigured,      \* whether CONFIG.GAMIFICATION_CONFIG is defined
    requestQueue,          \* AIManager.requestQueue, the requests by their number
    isProcessingQueue,     \* AIManager.isProcessingQueue
    rateLimitInfo,         \* AIManager.rateLimitInfo
    aiLoops,               \* the processRequestQueue calls suspended at an await
    aiTimers,              \* pending setTimeout(processRequestQueue, 5000) callbacks
    aiPromises,            \* per request, the state of makeAIRequest's promise
    aiSent,                \* the requests handed to fetch, in order
    aiClock,               \* the clock (Date.now()) of the AIManager, in seconds
    aiRejections,          \* number of 429 responses the server has given
    aiClears,              \* number of clearRequestQueue calls
    rateLimiterRequests,   \* Utils.rateLimiter.requests, the Map
    rateLimiterNow,        \* the clock (Date.now()) of the rate limiter, in minutes
    admittedInMinute,      \* canMakeRequest calls answered true in this minute
    admittedInHour,        \* canMakeRequest calls answered true in this hour
    lastAdmitted           \* what the last canMakeRequest call returned

convVars == <<screen, currentTopic, conversationStartTime, messages, messageCount,
              isListening, recordingActive, isTutorTyping, tutorHasGreeted,
              conversationComplete, inputDisabled, userInput, modals, network,
              chatPosts, sttStartPosts, sttStopPosts, endPosts, progressPosts, lastOp>>

srVars == <<items, reviewLog, now, dueItems>>

ptVars == <<progress, streakData, storage, activityDays, topicsCurrentTopic,
           progressCalls, badgesConfigured>>

aiVars == <<requestQueue, isProcessingQueue, rateLimitInfo, aiLoops, aiTimers,
           aiPromises, aiSent, aiClock, aiRejections, aiClears>>

rlVars == <<rateLimiterRequests, rateLimiterNow, admittedInMinute, admittedInHour,
           lastAdmitted>>

vars == <<convVars, srVars, ptVars, aiVars, rlVars>>

(***************************************************************************)
(* The ConversationManager, the DOM elements it reads and writes and the   *)
(* requests it has issued, as one value: the methods below are functions   *)
(* from the state before a call to the state after it.  The manager is     *)
(* always constructed with a logged-in user (App.startConversationPractice *)
(* returns without one), so this.user is not null.                         *)
(***************************************************************************)
Self ==
    [screen |-> screen, currentTopic |-> currentTopic,
     conversationStartTime |-> conversationStartTime, messages |-> messages,
     messageCount |-> messageCount, isListening |-> isListening,
     recordingActive |-> recordingActive, isTutorTyping |-> isTutorTyping,
     tutorHasGreeted |-> tutorHasGreeted,
     conversationComplete |-> conversationComplete,
     inputDisabled |-> inputDisabled, userInput |-> userInput, modals |-> modals,
     network |-> network, chatPosts |-> chatPosts, sttStartPosts |-> sttStartPosts,
     sttStopPosts |-> sttStopPosts, endPosts |-> endPosts,
     progressPosts |-> progressPosts]

Commit(s) ==
    /\ screen' = s.screen
    /\ currentTopic' = s.currentTopic
    /\ conversationStartTime' = s.conversationStartTime
    /\ messages' = s.messages
    /\ messageCount' = s.messageCount
    /\ isListening' = s.isListening
    /\ recordingActive' = s.recordingActive
    /\ isTutorTyping' = s.isTutorTyping
    /\ tutorHasGreeted' = s.tutorHasGreeted
    /\ conversationComplete' = s.conversationComplete
    /\ inputDisabled' = s.inputDisabled
    /\ userInput' = s.userInput
    /\ modals' = s.modals
    /\ network' = s.network
    /\ chatPosts' = s.chatPosts
    /\ sttStartPosts' = s.sttStartPosts
    /\ sttStopPosts' = s.sttStopPosts
    /\ endPosts' = s.endPosts
    /\ progressPosts' = s.progressPosts

\* fetch(): the request is in flight; the caller is suspended at its await.
\* session is the conversation (conversationStartTime) the caller belongs to.
fetch(s, endpoint) ==
    [s EXCEPT !.network = Append(@, [endpoint |-> endpoint,
                                     session |-> s.conversationStartTime,
                                     settled |-> FALSE])]

addMessage(s, sender, text) ==
    [s EXCEPT !.messages = Append(@, [sender |-> sender, text |-> text])]

clearMessages(s) == [s EXCEPT !.messages = <<>>]

showTypingIndicator(s) == [s EXCEPT !.isTutorTyping = TRUE]

removeTypingIndicator(s) == [s EXCEPT !.isTutorTyping = FALSE]

setInputDisabled(s, disabled) == [s EXCEPT !.inputDisabled = disabled]

\* initializeTopicContext, up to its await of the fetch
initializeTopicContext(s) == fetch(s, "init-topic")

\* startConversation, up to its await of initializeTopicContext.
\* Date.now() is modelled by a counter: each conversation gets a new start time.
startConversation(s, topicId) ==
    LET s1 == [s EXCEPT !.currentTopic = topicId,
                        !.conversationStartTime = @ + 1,
                        !.conversationComplete = FALSE,
                        !.tutorHasGreeted = FALSE,
                        !.messageCount = 0]
        s2 == clearMessages(s1)
        s3 == setInputDisabled(s2, TRUE)
    IN  initializeTopicContext(s3)

showWelcomeMessage(s) ==
    LET s1 == addMessage(s, "ai", WelcomeMessage)
        s2 == [s1 EXCEPT !.tutorHasGreeted = TRUE]
    IN  setInputDisabled(s2, FALSE)

\* a startConversation that ends where the initialization has failed
startConversationResumedAbortsOnFailure(s, reply) ==
    IF reply.tag = "ok" THEN showWelcomeMessage(s) ELSE s

\* startConversation after initializeTopicContext has returned, whatever it
\* returned (true, false after a non-OK response, false after a rejected fetch)
startConversationResumed(s, reply) == showWelcomeMessage(s)

\* sendToBackend, up to its await of the fetch
sendToBackend(s) == [fetch(s, "chat") EXCEPT !.chatPosts = @ + 1]

\* sendMessage without the isTutorTyping half of its gate
sendMessageTypingUnchecked(s) ==
    IF ~s.tutorHasGreeted THEN s
    ELSE LET message == trim(s.userInput)
         IN  IF message = <<>> THEN s
             ELSE LET s1 == [s EXCEPT !.userInput = <<>>]
                      s2 == addMessage(s1, "user", message)
                      s3 == [s2 EXCEPT !.messageCount = @ + 1]
                      s4 == showTypingIndicator(s3)
                      s5 == setInputDisabled(s4, TRUE)
                  IN  sendToBackend(s5)

\* sendMessage without the tutorHasGreeted half of its gate
sendMessageGreetingUnchecked(s) ==
    IF s.isTutorTyping THEN s
    ELSE LET message == trim(s.userInput)
         IN  IF message = <<>> THEN s
             ELSE LET s1 == [s EXCEPT !.userInput = <<>>]
                      s2 == addMessage(s1, "user", message)
                      s3 == [s2 EXCEPT !.messageCount = @ + 1]
                      s4 == showTypingIndicator(s3)
                      s5 == setInputDisabled(s4, TRUE)
                  IN  sendToBackend(s5)

\* sendMessage, up to its await of sendToBackend
sendMessage(s) ==
    IF s.isTutorTyping \/ ~s.tutorHasGreeted THEN s
    ELSE LET message == trim(s.userInput)
         IN  IF message = <<>> THEN s
             ELSE LET s1 == [s EXCEPT !.userInput = <<>>]
                      s2 == addMessage(s1, "user", message)
                      s3 == [s2 EXCEPT !.messageCount = @ + 1]
                      s4 == showTypingIndicator(s3)
                      s5 == setInputDisabled(s4, TRUE)
                  IN  sendToBackend(s5)

showCompletionMessage(s) == addMessage(s, "ai", CongratsMessage)

\* replies of POST /api/chat: a 2xx response with a JSON body (text is its
\* ai_response), a response whose status is not OK (text is the status, in
\* digits), a rejected fetch (text is the TypeError's message) and a 2xx
\* response whose body is not JSON (text is the SyntaxError's message)
HttpErrorStatuses == {<<"5", "0", "0">>, <<"5", "0", "3">>}

ChatReplies ==
    {[tag |-> "ok", text |-> t] : t \in AiResponses}
    \cup {[tag |-> "http-error", text |-> st] : st \in HttpErrorStatuses}
    \cup {[tag |-> "fetch-rejected", text |-> <<"Failed to fetch">>],
          [tag |-> "json-rejected", text |-> <<"Unexpected token">>]}

\* the message of the Error that sendToBackend throws
errorMessage(reply) ==
    IF reply.tag = "http-error" THEN <<"HTTP error! status: ">> \o reply.text
    ELSE reply.text

\* String.prototype.includes for a needle of several units
includesText(s, needle) ==
    \E i \in 1..(Len(s) - Len(needle) + 1) :
        SubSeq(s, i, i + Len(needle) - 1) = needle

\* a catch block that re-enables the input but leaves the typing state set
sendMessageCatchStillTyping(s, reply) ==
    LET s2 == setInputDisabled(s, FALSE)
        msg == errorMessage(reply)
    IN  IF includes(msg, "Failed to fetch")
        THEN addMessage(s2, "ai", CannotConnectMessage)
        ELSE IF includesText(msg, <<"HTTP error! status: ", "5", "0", "0">>)
        THEN addMessage(s2, "ai", ServerErrorMessage)
        ELSE addMessage(s2, "ai", ConnectionErrorMessage)

\* a catch block that reports the failure and then posts the message again
sendMessageCatchRetries(s, reply) ==
    LET s2 == setInputDisabled(s, TRUE)
        msg == errorMessage(reply)
        s3 == IF includes(msg, "Failed to fetch")
              THEN addMessage(s2, "ai", CannotConnectMessage)
              ELSE IF includesText(msg, <<"HTTP error! status: ", "5", "0", "0">>)
              THEN addMessage(s2, "ai", ServerErrorMessage)
              ELSE addMessage(s2, "ai", ConnectionErrorMessage)
    IN  sendToBackend(s3)

\* the catch block of sendMessage
sendMessageCatch(s, reply) ==
    LET s1 == removeTypingIndicator(s)
        s2 == setInputDisabled(s1, FALSE)
        msg == errorMessage(reply)
    IN  IF includes(msg, "Failed to fetch")
        THEN addMessage(s2, "ai", CannotConnectMessage)
        ELSE IF includesText(msg, <<"HTTP error! status: ", "5", "0", "0">>)
        THEN addMessage(s2, "ai", ServerErrorMessage)
        ELSE addMessage(s2, "ai", ConnectionErrorMessage)

\* a try block that completes the lesson on every response with a text
sendMessageTryAlwaysComplete(s, reply) ==
    LET s1 == removeTypingIndicator(s)
        s2 == setInputDisabled(s1, FALSE)
    IN  IF reply.text # <<>>
        THEN LET s3 == addMessage(s2, "ai", reply.text)
             IN  showCompletionMessage([s3 EXCEPT !.conversationComplete = TRUE])
        ELSE addMessage(s2, "ai", CouldNotProcessMessage)

\* the try block of sendMessage after sendToBackend has returned
sendMessageTry(s, reply) ==
    LET s1 == removeTypingIndicator(s)
        s2 == setInputDisabled(s1, FALSE)
    IN  IF reply.text # <<>>
        THEN LET s3 == addMessage(s2, "ai", reply.text)
             IN  IF includes(reply.text, "LESSON_COMPLETE")
                 THEN showCompletionMessage([s3 EXCEPT !.conversationComplete = TRUE])
                 ELSE s3
        ELSE addMessage(s2, "ai", CouldNotProcessMessage)

\* sendMessage from the moment the awaited sendToBackend settles
sendMessageResumed(s, reply) ==
    IF reply.tag = "ok" THEN sendMessageTry(s, reply) ELSE sendMessageCatch(s, reply)

\* stopVoiceInput, up to its await of the fetch
stopVoiceInput(s) ==
    IF ~s.isListening THEN s
    ELSE [fetch(s, "stt-stop") EXCEPT !.sttStopPosts = @ + 1]

\* replies of POST /api/stt/stop: success with a text, success false, rejected
SttStopReplies ==
    {[tag |-> "ok", text |-> t] : t \in Transcripts}
    \cup {[tag |-> "refused", text |-> <<>>], [tag |-> "fetch-rejected", text |-> <<>>]}

\* a continuation of stopVoiceInput that does not filter the sentinel
stopVoiceInputResumedKeepsSentinel(s, reply) ==
    LET body == IF reply.tag = "ok" /\ reply.text # <<>> /\ trim(reply.text) # <<>>
                THEN sendMessage([s EXCEPT !.userInput = trim(reply.text)])
                ELSE s
    IN  [body EXCEPT !.isListening = FALSE, !.recordingActive = FALSE]

\* stopVoiceInput from the moment the awaited fetch settles; the finally block
\* runs on every path
stopVoiceInputResumed(s, reply) ==
    LET body == IF reply.tag = "ok" /\ reply.text # <<>> /\ trim(reply.text) # <<>>
                THEN IF trim(reply.text) = <<"LEGAL">> THEN s
                     ELSE sendMessage([s EXCEPT !.userInput = trim(reply.text)])
                ELSE s
    IN  [body EXCEPT !.isListening = FALSE, !.recordingActive = FALSE]

\* startVoiceInput, up to its await of the fetch
startVoiceInput(s) ==
    IF s.isTutorTyping \/ ~s.tutorHasGreeted THEN s
    ELSE IF s.isListening THEN s
    ELSE LET s1 == [s EXCEPT !.isListening = TRUE, !.recordingActive = FALSE]
         IN  [fetch(s1, "stt-start") EXCEPT !.sttStartPosts = @ + 1]

\* replies of POST /api/stt/start: success and recording, not so, rejected
SttStartReplies ==
    {[tag |-> "ok", text |-> <<>>], [tag |-> "refused", text |-> <<>>],
     [tag |-> "fetch-rejected", text |-> <<>>]}

\* startVoiceInput from the moment the awaited fetch settles
startVoiceInputResumed(s, reply) ==
    IF reply.tag = "ok" THEN [s EXCEPT !.recordingActive = TRUE]
    ELSE stopVoiceInput(s)

\* toggleVoiceInput without the wait for "Recording Active"
toggleVoiceInputStopsEarly(s) ==
    IF s.isTutorTyping \/ ~s.tutorHasGreeted THEN s
    ELSE IF s.isListening THEN stopVoiceInput(s) ELSE startVoiceInput(s)

toggleVoiceInput(s) ==
    IF s.isTutorTyping \/ ~s.tutorHasGreeted THEN s
    ELSE IF s.isListening
         THEN IF ~s.recordingActive THEN s ELSE stopVoiceInput(s)
         ELSE startVoiceInput(s)

\* endChatSession, up to its await: the request is sent; its continuation only logs
endChatSession(s) == [s EXCEPT !.endPosts = Append(@, s.conversationStartTime)]

\* awardCompletionXP, up to its await: the request is sent; its continuation only logs
awardCompletionXP(s) == [s EXCEPT !.progressPosts = Append(@, s.conversationStartTime)]

\* a leave that neither stops the recording nor ends the chat session
goBackToDashboardNoTeardown(s, awardXP) ==
    LET s3 == IF awardXP /\ s.conversationComplete THEN awardCompletionXP(s) ELSE s
    IN  [s3 EXCEPT !.screen = "dashboard"]

goBackToDashboard(s, awardXP) ==
    LET s1 == stopVoiceInput(s)
        s2 == endChatSession(s1)
        s3 == IF awardXP /\ s2.conversationComplete THEN awardCompletionXP(s2) ELSE s2
    IN  [s3 EXCEPT !.screen = "dashboard"]

showLeaveConfirmation(s) == [s EXCEPT !.modals = @ + 1]

\* a back button that leaves at once, complete or not
handleBackToDashboardNoConfirmation(s) == goBackToDashboard(s, TRUE)

handleBackToDashboard(s) ==
    IF s.conversationComplete THEN goBackToDashboard(s, TRUE)
    ELSE showLeaveConfirmation(s)

\* a "Leave" button that awards the XP of a complete conversation
confirmLeaveAwardsXP(s) ==
    LET s1 == IF s.modals > 0 THEN [s EXCEPT !.modals = @ - 1] ELSE s
    IN  goBackToDashboard(s1, TRUE)

confirmLeave(s) ==
    LET s1 == IF s.modals > 0 THEN [s EXCEPT !.modals = @ - 1] ELSE s
    IN  goBackToDashboard(s1, FALSE)

\* onclick of the "Continue Learning" button: its modal removes itself
continueLearning(s) == [s EXCEPT !.modals = @ - 1]

InitReplies ==
    {[tag |-> "ok", text |-> <<>>], [tag |-> "http-error", text |-> <<"5", "0", "0">>],
     [tag |-> "fetch-rejected", text |-> <<"Failed to fetch">>]}

\* the network without its i-th request
Without(net, i) == SubSeq(net, 1, i - 1) \o SubSeq(net, i + 1, Len(net))

(***************************************************************************)
(* ProgressTracker: the spaced-repetition scheduler.  Times are in days;   *)
(* ease factors are in hundredths (2.5 is 250), which the update formula   *)
(* keeps whole: 0.1 - (5 - q) * (0.08 + (5 - q) * 0.02) is                 *)
(* (10 - (5 - q) * (8 + (5 - q) * 2)) / 100.                               *)
(***************************************************************************)
INITIAL_INTERVAL == 1
EASY_FACTOR == 250
MIN_FACTOR == 130
MIN_INTERVAL == 1
MAX_INTERVAL == 365

\* qualities a caller may pass: 0..5 and one value out of range on each side
Qualities == -1..6

Max(a, b) == IF a >= b THEN a ELSE b

\* Math.round(interval * ease_factor).  The product is a double: when the
\* exact product lies halfway between two integers the double can fall on
\* either side of the half, depending on the rounding errors the ease factor
\* has collected (qualities 2,1,3,4,4,3 on a fresh item give 13, where the
\* exact product 13.5 rounds to 14), so at a tie either neighbour can result.
roundProduct(interval, ease_factor, tieUp) ==
    LET hundredths == interval * ease_factor
    IN  IF hundredths % 100 = 50 /\ ~tieUp
        THEN hundredths \div 100
        ELSE (hundredths + 50) \div 100

\* the item addSpacedRepetitionItem stores
newItem(topicId, today) ==
    [topic |-> topicId,
     interval |-> INITIAL_INTERVAL,
     repetitions |-> 0,
     ease_factor |-> EASY_FACTOR,
     next_review |-> today + INITIAL_INTERVAL,
     last_reviewed |-> -1]

\* an update that tests repetitions before it counts the review
updateSpacedRepetitionItemLateIncrement(item, quality, today, tieUp) ==
    LET interval ==
            IF quality >= 3
            THEN IF item.repetitions = 1 THEN 1
                 ELSE IF item.repetitions = 2 THEN 6
                 ELSE roundProduct(item.interval, item.ease_factor, tieUp)
            ELSE 1
    IN  [item EXCEPT
            !.last_reviewed = today,
            !.repetitions = IF quality >= 3 THEN item.repetitions + 1 ELSE 0,
            !.interval = interval,
            !.ease_factor =
                Max(MIN_FACTOR,
                    item.ease_factor
                        + (10 - (5 - quality) * (8 + (5 - quality) * 2))),
            !.next_review = today + interval]

\* an update that computes the new ease factor before the interval
updateSpacedRepetitionItemEaseFirst(item, quality, today, tieUp) ==
    LET repetitions == item.repetitions + 1
        ease_factor ==
            Max(MIN_FACTOR,
                item.ease_factor + (10 - (5 - quality) * (8 + (5 - quality) * 2)))
        interval ==
            IF quality >= 3
            THEN IF repetitions = 1 THEN 1
                 ELSE IF repetitions = 2 THEN 6
                 ELSE roundProduct(item.interval, ease_factor, tieUp)
            ELSE 1
    IN  [item EXCEPT
            !.last_reviewed = today,
            !.repetitions = IF quality >= 3 THEN repetitions ELSE 0,
            !.interval = interval,
            !.ease_factor = ease_factor,
            !.next_review = today + interval]

\* an update that does not hold the ease factor at MIN_FACTOR
updateSpacedRepetitionItemNoFloor(item, quality, today, tieUp) ==
    LET repetitions == item.repetitions + 1
        interval ==
            IF quality >= 3
            THEN IF repetitions = 1 THEN 1
                 ELSE IF repetitions = 2 THEN 6
                 ELSE roundProduct(item.interval, item.ease_factor, tieUp)
            ELSE 1
    IN  [item EXCEPT
            !.last_reviewed = today,
            !.repetitions = IF quality >= 3 THEN repetitions ELSE 0,
            !.interval = interval,
            !.ease_factor =
                item.ease_factor + (10 - (5 - quality) * (8 + (5 - quality) * 2)),
            !.next_review = today + interval]

\* an update whose failure branch resets repetitions but keeps the interval
updateSpacedRepetitionItemKeepsInterval(item, quality, today, tieUp) ==
    LET repetitions == item.repetitions + 1
        interval ==
            IF quality >= 3
            THEN IF repetitions = 1 THEN 1
                 ELSE IF repetitions = 2 THEN 6
                 ELSE roundProduct(item.interval, item.ease_factor, tieUp)
            ELSE item.interval
    IN  [item EXCEPT
            !.last_reviewed = today,
            !.repetitions = IF quality >= 3 THEN repetitions ELSE 0,
            !.interval = interval,
            !.ease_factor =
                Max(MIN_FACTOR,
                    item.ease_factor
                        + (10 - (5 - quality) * (8 + (5 - quality) * 2))),
            !.next_review = today + interval]

\* updateSpacedRepetitionItem on an item that exists
updateSpacedRepetitionItem(item, quality, today, tieUp) ==
    LET repetitions == item.repetitions + 1
        interval ==
            IF quality >= 3
            THEN IF repetitions = 1 THEN 1
                 ELSE IF repetitions = 2 THEN 6
                 ELSE roundProduct(item.interval, item.ease_factor, tieUp)
            ELSE 1
    IN  [item EXCEPT
            !.last_reviewed = today,
            !.repetitions = IF quality >= 3 THEN repetitions ELSE 0,
            !.interval = interval,
            !.ease_factor =
                Max(MIN_FACTOR,
                    item.ease_factor
                        + (10 - (5 - quality) * (8 + (5 - quality) * 2))),
            !.next_review = today + interval]

\* the ids of the items with next_review <= today, in insertion order
\* (Object.values(...).forEach with the push)
dueItemsUnsorted(its, today) ==
    LET RECURSIVE Upto(_)
        Upto(i) ==
            IF i = 0 THEN <<>>
            ELSE Upto(i - 1) \o (IF its[i].next_review <= today THEN <<i>> ELSE <<>>)
    IN  Upto(Len(its))

\* Array.prototype.sort with the comparator a.next_review - b.next_review:
\* a stable sort, so an id goes behind the ids that compare <= to it
sortByNextReview(its, ids) ==
    LET Insert(sorted, id) ==
            LET before == SelectSeq(sorted,
                              LAMBDA j : its[j].next_review <= its[id].next_review)
                after == SelectSeq(sorted,
                              LAMBDA j : its[j].next_review > its[id].next_review)
            IN  before \o <<id>> \o after
        RECURSIVE Sorted(_)
        Sorted(n) == IF n = 0 THEN <<>> ELSE Insert(Sorted(n - 1), ids[n])
    IN  Sorted(Len(ids))

\* a due list that is returned as collected
getDueSpacedRepetitionItemsUnsorted(its, today) == dueItemsUnsorted(its, today)

\* getDueSpacedRepetitionItems, as the ids of the items it returns
getDueSpacedRepetitionItems(its, today) ==
    sortByNextReview(its, dueItemsUnsorted(its, today))

InitSR ==
    /\ items = <<>>
    /\ reviewLog = <<>>
    /\ now = 0
    /\ dueItems = <<>>

\* reviews made so far, over all items
ReviewsMade == LET RECURSIVE Sum(_)
                   Sum(i) == IF i = 0 THEN 0 ELSE Len(reviewLog[i]) + Sum(i - 1)
               IN  Sum(Len(reviewLog))

(***************************************************************************)
(* ProgressTracker: topic progress and the activity streak, and the        *)
(* TopicsManager calls that reach them.  A tracker state is a record of    *)
(* progress, streakData, storage and error: error is the exception, if     *)
(* any, that ended the call.  Dates are days; -1 is null.  storage is the  *)
(* copy in local storage that saveProgress and saveStreakData write.       *)
(***************************************************************************)
\* CONFIG.LEVELS[level].topics of the user's level, cut to two topics
LevelTopics == <<"greetings", "family">>

\* the topic ids a caller passes: the level's topics and an id that is in
\* neither CONFIG.TOPIC_DETAILS nor level_progress
TopicArgs == {"greetings", "family", "no_such_topic"}

\* CONFIG.TOPIC_DETAILS[topicId] exists
InCatalog(topicId) == topicId \in {LevelTopics[i] : i \in 1..Len(LevelTopics)}

\* getTopicPhrases(topicId).length: the key_phrases of the topic's details.
\* The details in config_pythonanywhere.js list none; getTopicPhrases reads
\* them where a catalog has them, so one topic is given two.
getTopicPhrasesLength(topicId) ==
    IF topicId = "greetings" THEN 2 ELSE 0

\* the counts passed to updatePhrasesLearned
Counts == {-1, 0, 1}

\* the minutes passed to updateStudyTime
StudyMinutes == {1}

\* progress.daily_goals.phrases
DailyGoalPhrases == 3

\* the tracker as a call sees it; activityDays is the record of the days on
\* which updateActivityStreak was called
Tracker ==
    [progress |-> progress,
     streakData |-> streakData,
     storage |-> storage,
     activityDays |-> activityDays,
     error |-> "none"]

\* initialiseLevelProgress: the entry of a topic of the level
newTopicProgress ==
    [status |-> "not_started",
     phrases_learned |-> 0,
     conversations_completed |-> 0,
     last_practiced |-> -1,
     completion_date |-> -1,
     practice_sessions |-> 0]

\* the default of storage.get('streak_data', ...)
defaultStreakData ==
    [current_streak |-> 0,
     longest_streak |-> 0,
     last_activity_date |-> -1,
     streak_start_date |-> -1]

saveProgress(t) == [t EXCEPT !.storage.progress = t.progress]

saveStreakData(t) == [t EXCEPT !.storage.streak_data = t.streakData]

\* loadStreakData: the stored streak, with the streak zeroed when the last
\* activity was neither today nor yesterday; nothing is written back
loadStreakData(store, today) ==
    LET sd == store.streak_data
    IN  IF /\ sd.last_activity_date # -1
           /\ sd.last_activity_date # today
           /\ sd.last_activity_date # today - 1
        THEN [sd EXCEPT !.current_streak = 0, !.streak_start_date = -1]
        ELSE sd

\* addAchievement: the achievement is pushed, then the badge is looked up in
\* CONFIG.GAMIFICATION_CONFIG.badges, which throws where the configuration
\* has no GAMIFICATION_CONFIG (config_pythonanywhere.js has none)
addAchievement(t, type, today) ==
    LET t1 == [t EXCEPT !.progress.achievements =
                            Append(@, [type |-> type, earned_at |-> today])]
    IN  IF badgesConfigured THEN saveProgress(t1) ELSE [t1 EXCEPT !.error = "TypeError"]

\* a streak that a gap does not break
updateActivityStreakNeverResets(t, today) ==
    LET sd == t.streakData
        lastActivity == sd.last_activity_date
        t0 == [t EXCEPT !.activityDays = @ \cup {today}]
    IN  IF lastActivity = -1 \/ lastActivity # today
        THEN LET continues == lastActivity # -1
                 streak == IF continues THEN sd.current_streak + 1 ELSE 1
                 longer == streak > sd.longest_streak
                 sd1 == [sd EXCEPT
                            !.current_streak = streak,
                            !.streak_start_date = IF continues THEN @ ELSE today,
                            !.last_activity_date = today,
                            !.longest_streak = IF longer THEN streak ELSE @]
                 t1 == [t0 EXCEPT !.streakData = sd1]
                 t2 == IF longer /\ streak = 7
                       THEN addAchievement(t1, "week_streak", today)
                       ELSE IF longer /\ streak = 30
                       THEN addAchievement(t1, "month_streak", today)
                       ELSE t1
             IN  IF t2.error # "none" THEN t2
                 ELSE saveStreakData(
                          [t2 EXCEPT !.progress.current_streak = sd1.current_streak,
                                     !.progress.longest_streak = sd1.longest_streak])
        ELSE t0

\* a streak that counts every call, also a second one on the same day
updateActivityStreakCountsEveryCall(t, today) ==
    LET sd == t.streakData
        lastActivity == sd.last_activity_date
        t0 == [t EXCEPT !.activityDays = @ \cup {today}]
        continues == lastActivity # -1 /\ lastActivity >= today - 1
        streak == IF continues THEN sd.current_streak + 1 ELSE 1
        longer == streak > sd.longest_streak
        sd1 == [sd EXCEPT
                   !.current_streak = streak,
                   !.streak_start_date = IF continues THEN @ ELSE today,
                   !.last_activity_date = today,
                   !.longest_streak = IF longer THEN streak ELSE @]
        t1 == [t0 EXCEPT !.streakData = sd1]
        t2 == IF longer /\ streak = 7
              THEN addAchievement(t1, "week_streak", today)
              ELSE IF longer /\ streak = 30
              THEN addAchievement(t1, "month_streak", today)
              ELSE t1
    IN  IF t2.error # "none" THEN t2
        ELSE saveStreakData(
                 [t2 EXCEPT !.progress.current_streak = sd1.current_streak,
                            !.progress.longest_streak = sd1.longest_streak])

\* a streak whose longest_streak is never raised
updateActivityStreakKeepsLongest(t, today) ==
    LET sd == t.streakData
        lastActivity == sd.last_activity_date
        t0 == [t EXCEPT !.activityDays = @ \cup {today}]
    IN  IF lastActivity = -1 \/ lastActivity # today
        THEN LET continues == lastActivity # -1 /\ lastActivity = today - 1
                 streak == IF continues THEN sd.current_streak + 1 ELSE 1
                 sd1 == [sd EXCEPT
                            !.current_streak = streak,
                            !.streak_start_date = IF continues THEN @ ELSE today,
                            !.last_activity_date = today]
                 t1 == [t0 EXCEPT !.streakData = sd1]
             IN  saveStreakData(
                     [t1 EXCEPT !.progress.current_streak = sd1.current_streak,
                                !.progress.longest_streak = sd1.longest_streak])
        ELSE t0

\* updateActivityStreak: where addAchievement throws, the streak is changed
\* in memory and neither copied to progress nor saved
updateActivityStreak(t, today) ==
    LET sd == t.streakData
        lastActivity == sd.last_activity_date
        t0 == [t EXCEPT !.activityDays = @ \cup {today}]
    IN  IF lastActivity = -1 \/ lastActivity # today
        THEN LET continues == lastActivity # -1 /\ lastActivity = today - 1
                 streak == IF continues THEN sd.current_streak + 1 ELSE 1
                 longer == streak > sd.longest_streak
                 sd1 == [sd EXCEPT
                            !.current_streak = streak,
                            !.streak_start_date = IF continues THEN @ ELSE today,
                            !.last_activity_date = today,
                            !.longest_streak = IF longer THEN streak ELSE @]
                 t1 == [t0 EXCEPT !.streakData = sd1]
                 t2 == IF longer /\ streak = 7
                       THEN addAchievement(t1, "week_streak", today)
                       ELSE IF longer /\ streak = 30
                       THEN addAchievement(t1, "month_streak", today)
                       ELSE t1
             IN  IF t2.error # "none" THEN t2
                 ELSE saveStreakData(
                          [t2 EXCEPT !.progress.current_streak = sd1.current_streak,
                                     !.progress.longest_streak = sd1.longest_streak])
        ELSE t0

\* updateStudyTime(minutes)
updateStudyTime(t, minutes, today) ==
    LET t1 == [t EXCEPT !.progress.total_study_time = @ + minutes]
        t2 == updateActivityStreak(t1, today)
    IN  IF t2.error # "none" THEN t2 ELSE saveProgress(t2)

\* an update that marks the topic in_progress whatever its status was
updateConversationProgressAlwaysInProgress(t, topicId, today) ==
    LET lp == t.progress.level_progress
        entry == IF topicId \in DOMAIN lp THEN lp[topicId]
                 ELSE [newTopicProgress EXCEPT !.status = "in_progress"]
        entry1 == [entry EXCEPT !.conversations_completed = @ + 1,
                                !.last_practiced = today,
                                !.practice_sessions = @ + 1,
                                !.status = "in_progress"]
        t1 == [t EXCEPT
                  !.progress.level_progress =
                      [id \in DOMAIN lp \cup {topicId} |->
                          IF id = topicId THEN entry1 ELSE lp[id]],
                  !.progress.topics_in_progress =
                      IF entry.status = "not_started" THEN Append(@, topicId) ELSE @,
                  !.progress.conversation_count = @ + 1]
        t2 == updateActivityStreak(t1, today)
    IN  IF t2.error # "none" THEN t2 ELSE saveProgress(t2)

updateConversationProgress(t, topicId, today) ==
    LET lp == t.progress.level_progress
        entry == IF topicId \in DOMAIN lp THEN lp[topicId]
                 ELSE [newTopicProgress EXCEPT !.status = "in_progress"]
        entry1 == [entry EXCEPT !.conversations_completed = @ + 1,
                                !.last_practiced = today,
                                !.practice_sessions = @ + 1,
                                !.status = IF @ = "not_started" THEN "in_progress" ELSE @]
        t1 == [t EXCEPT
                  !.progress.level_progress =
                      [id \in DOMAIN lp \cup {topicId} |->
                          IF id = topicId THEN entry1 ELSE lp[id]],
                  !.progress.topics_in_progress =
                      IF entry.status = "not_started" THEN Append(@, topicId) ELSE @,
                  !.progress.conversation_count = @ + 1]
        t2 == updateActivityStreak(t1, today)
    IN  IF t2.error # "none" THEN t2 ELSE saveProgress(t2)

checkDailyGoal(t, today) ==
    IF t.progress.phrases_learned_today >= DailyGoalPhrases
    THEN addAchievement(t, "daily_goal_met", today)
    ELSE t

\* updatePhrasesLearned(count, topicId); topicId "null" is the default null
updatePhrasesLearned(t, count, topicId, today) ==
    LET lp == t.progress.level_progress
        t1 == [t EXCEPT
                  !.progress.total_phrases_learned = @ + count,
                  !.progress.phrases_learned_today = @ + count,
                  !.progress.level_progress =
                      IF topicId # "null" /\ topicId \in DOMAIN lp
                      THEN [lp EXCEPT ![topicId].phrases_learned = @ + count]
                      ELSE lp]
        t2 == updateActivityStreak(t1, today)
        t3 == IF t2.error # "none" THEN t2 ELSE checkDailyGoal(t2, today)
    IN  IF t3.error # "none" THEN t3 ELSE saveProgress(t3)

\* Array.prototype.includes and the splice of the first occurrence
includesTopic(list, topicId) == \E i \in 1..Len(list) : list[i] = topicId

spliceTopic(list, topicId) ==
    IF includesTopic(list, topicId)
    THEN LET i == CHOOSE k \in 1..Len(list) :
                      list[k] = topicId /\ \A j \in 1..(k - 1) : list[j] # topicId
         IN  SubSeq(list, 1, i - 1) \o SubSeq(list, i + 1, Len(list))
    ELSE list

checkLevelCompletion(t, today) ==
    IF \A i \in 1..Len(LevelTopics) :
           includesTopic(t.progress.topics_completed, LevelTopics[i])
    THEN addAchievement(t, "level_completed", today)
    ELSE t

completeTopic(t, topicId, today) ==
    LET lp == t.progress.level_progress
    IN  IF topicId \notin DOMAIN lp THEN t
        ELSE LET t1 == [t EXCEPT
                           !.progress.level_progress[topicId].status = "completed",
                           !.progress.level_progress[topicId].completion_date = today,
                           !.progress.topics_in_progress = spliceTopic(@, topicId),
                           !.progress.topics_completed =
                               IF includesTopic(@, topicId) THEN @
                               ELSE Append(@, topicId)]
                 t2 == addAchievement(t1, "topic_completed", today)
                 t3 == IF t2.error # "none" THEN t2 ELSE checkLevelCompletion(t2, today)
             IN  IF t3.error # "none" THEN t3 ELSE saveProgress(t3)

resetDailyProgress(t) ==
    saveProgress([t EXCEPT !.progress.phrases_learned_today = 0])

\* Math.round((learnedPhrases / totalPhrases) * 100)
roundPercent(learnedPhrases, totalPhrases) ==
    (200 * learnedPhrases + totalPhrases) \div (2 * totalPhrases)

\* TopicsManager.calculateTopicCompletion(topicId)
calculateTopicCompletion(t, topicId) ==
    IF topicId \notin DOMAIN t.progress.level_progress THEN 0
    ELSE LET totalPhrases == getTopicPhrasesLength(topicId)
             learnedPhrases == t.progress.level_progress[topicId].phrases_learned
         IN  IF totalPhrases = 0 THEN 0
             ELSE roundPercent(learnedPhrases, totalPhrases)

\* initialiseProgress(user) for a user of the level
initialProgress ==
    [level_progress |->
         [id \in {LevelTopics[i] : i \in 1..Len(LevelTopics)} |-> newTopicProgress],
     topics_completed |-> <<>>,
     topics_in_progress |-> <<>>,
     total_phrases_learned |-> 0,
     phrases_learned_today |-> 0,
     total_study_time |-> 0,
     conversation_count |-> 0,
     current_streak |-> 0,
     longest_streak |-> 0,
     achievements |-> <<>>]

\* new ProgressTracker() and initialiseProgress(user), which saves the progress
InitProgress ==
    /\ progress = initialProgress
    /\ streakData = defaultStreakData
    /\ storage = [progress |-> initialProgress, streak_data |-> defaultStreakData]
    /\ activityDays = {}
    /\ topicsCurrentTopic = "null"
    /\ progressCalls = 0

(***************************************************************************)
(* The conversation: initial state and the tasks of the event loop.        *)
(***************************************************************************)
\* what the bound MaxRequests counts: the conversations started, the chat and
\* speech-to-text requests issued and the confirmation modals open
Issued(s) ==
    s.conversationStartTime + s.chatPosts + s.sttStartPosts + s.sttStopPosts + s.modals

\* new ConversationManager(user, voiceManager), the dashboard showing
InitConversation ==
    /\ screen = "dashboard"
    /\ currentTopic = "null"
    /\ conversationStartTime = 0
    /\ messages = <<>>
    /\ messageCount = 0
    /\ isListening = FALSE
    /\ recordingActive = FALSE
    /\ isTutorTyping = FALSE
    /\ tutorHasGreeted = FALSE
    /\ conversationComplete = FALSE
    /\ inputDisabled = FALSE
    /\ userInput = <<>>
    /\ modals = 0
    /\ network = <<>>
    /\ chatPosts = 0
    /\ sttStartPosts = 0
    /\ sttStopPosts = 0
    /\ endPosts = <<>>
    /\ progressPosts = <<>>
    /\ lastOp = "other"

(***************************************************************************)
(* The AIManager: the queue of requests and the loop that sends them.      *)
(* blocked_until and the Retry-After header are seconds; -1 is null.       *)
(***************************************************************************)
\* the responses of a fetch: ok, an HTTP error or a rejected fetch, and 429
\* without and with a Retry-After header
AIReplies ==
    {[status |-> "ok", retryAfter |-> -1], [status |-> "error", retryAfter |-> -1]}
        \cup {[status |-> "429", retryAfter |-> r] : r \in {-1, 2}}

AI == [requestQueue |-> requestQueue, isProcessingQueue |-> isProcessingQueue,
       rateLimitInfo |-> rateLimitInfo, loops |-> aiLoops, timers |-> aiTimers,
       promises |-> aiPromises, sent |-> aiSent]

CommitAI(a) ==
    /\ requestQueue' = a.requestQueue
    /\ isProcessingQueue' = a.isProcessingQueue
    /\ rateLimitInfo' = a.rateLimitInfo
    /\ aiLoops' = a.loops
    /\ aiTimers' = a.timers
    /\ aiPromises' = a.promises
    /\ aiSent' = a.sent

\* isBlocked at time t
isBlocked(a, t) ==
    a.rateLimitInfo.blocked_until # -1 /\ t < a.rateLimitInfo.blocked_until

\* processRequestQueue after its while loop: call k returns, the flag is
\* lowered and the retry timer is set when requests remain and the manager
\* is not blocked
processRequestQueueExit(a, t, k) ==
    [a EXCEPT !.loops = SubSeq(@, 1, k - 1) \o SubSeq(@, k + 1, Len(@)),
              !.isProcessingQueue = FALSE,
              !.timers = IF Len(a.requestQueue) > 0 /\ ~isBlocked(a, t)
                         THEN @ + 1 ELSE @]

\* the while loop of call k from its condition to the await of fetch
processRequestQueueLoop(a, t, k) ==
    IF Len(a.requestQueue) > 0 /\ ~isBlocked(a, t)
    THEN [a EXCEPT !.requestQueue = Tail(@),
                   !.loops[k] = [pc |-> "fetch", request |-> Head(a.requestQueue)],
                   !.sent = Append(@, Head(a.requestQueue))]
    ELSE processRequestQueueExit(a, t, k)

processRequestQueue(a, t) ==
    IF a.isProcessingQueue \/ Len(a.requestQueue) = 0
    THEN a
    ELSE processRequestQueueLoop(
             [a EXCEPT !.isProcessingQueue = TRUE,
                       !.loops = Append(@, [pc |-> "top", request |-> 0])],
             t, Len(a.loops) + 1)

InitAI ==
    /\ requestQueue = <<>>
    /\ isProcessingQueue = FALSE
    /\ rateLimitInfo = [blocked_until |-> -1]
    /\ aiLoops = <<>>
    /\ aiTimers = 0
    /\ aiPromises = [id \in 1..MaxAIRequests |-> "none"]
    /\ aiSent = <<>>
    /\ aiClock = 0
    /\ aiRejections = 0
    /\ aiClears = 0

(***************************************************************************)
(* Utils.rateLimiter.  The Map is keyed by the pair of the caller's key    *)
(* and the number of the minute or of the hour, as the strings             *)
(* `${key}_${minute}` and `${key}_${hour}` are.  Time is in minutes.       *)
(***************************************************************************)
REQUESTS_PER_MINUTE == 20
REQUESTS_PER_HOUR == 150

RateLimitEpoch == 28800000     \* Date.now() when the page is loaded, in minutes

RateLimitKeys == {"/api/chat"}

cleanOldEntries(m, t) ==
    LET currentMinute == t
        currentHour == t \div 60
        kept == {k \in DOMAIN m :
                    ~((currentMinute - k[2] > 5) \/ (currentHour - k[2] > 2))}
    IN [k \in kept |-> m[k]]

\* canMakeRequest(key) at time t: the Map it leaves and what it returns
canMakeRequest(m, key, t) ==
    LET minuteKey == <<key, t>>
        hourKey == <<key, t \div 60>>
        minuteCount == IF minuteKey \in DOMAIN m THEN m[minuteKey] ELSE 0
        hourCount == IF hourKey \in DOMAIN m THEN m[hourKey] ELSE 0
        m1 == [k \in DOMAIN m \cup {minuteKey} |->
                  IF k = minuteKey THEN minuteCount + 1 ELSE m[k]]
        m2 == [k \in DOMAIN m1 \cup {hourKey} |->
                  IF k = hourKey THEN hourCount + 1 ELSE m1[k]]
    IN IF minuteCount >= REQUESTS_PER_MINUTE \/ hourCount >= REQUESTS_PER_HOUR
       THEN [requests |-> m, result |-> FALSE]
       ELSE [requests |-> cleanOldEntries(m2, t), result |-> TRUE]

InitRateLimiter ==
    /\ rateLimiterRequests = <<>>
    /\ rateLimiterNow = RateLimitEpoch
    /\ admittedInMinute = [key \in RateLimitKeys |-> 0]
    /\ admittedInHour = [key \in RateLimitKeys |-> 0]
    /\ lastAdmitted = "none"

\* the configuration shipped in config_pythonanywhere.js
Init ==
    /\ InitConversation /\ InitSR /\ InitProgress /\ badgesConfigured = FALSE
    /\ InitAI /\ InitRateLimiter

\* the same with either configuration
InitAnyConfig ==
    /\ InitConversation /\ InitSR /\ InitProgress /\ badgesConfigured \in BOOLEAN
    /\ InitAI /\ InitRateLimiter

\* App.startTopicConversation: a topic is chosen on the dashboard
TopicChosen ==
    \E topicId \in TopicIds :
        /\ screen = "dashboard"
        /\ Issued(Self) < MaxRequests
        /\ Commit(startConversation([Self EXCEPT !.screen = "conversation"], topicId))
        /\ lastOp' = "other"
        /\ UNCHANGED <<srVars, ptVars, aiVars, rlVars>>

\* the send button or the Enter key, after the learner has edited the input
SendPressed ==
    \E text \in TypedTexts \cup {userInput} :
        /\ screen = "conversation"
        /\ LET t == sendMessage([Self EXCEPT !.userInput = text])
           IN  /\ Issued(t) <= MaxRequests
               /\ Commit(t)
               /\ lastOp' = IF t.chatPosts > chatPosts THEN "other"
                            ELSE "sendMessage rejected"
        /\ UNCHANGED <<srVars, ptVars, aiVars, rlVars>>

\* a tap on the voice button
VoiceTapped ==
    /\ screen = "conversation"
    /\ LET t == toggleVoiceInput(Self)
       IN  /\ Issued(t) <= MaxRequests
           /\ Commit(t)
           /\ lastOp' = IF t.network # network THEN "other"
                        ELSE "toggleVoiceInput rejected"
    /\ UNCHANGED <<srVars, ptVars, aiVars, rlVars>>

\* a click on the back button
BackPressed ==
    /\ screen = "conversation"
    /\ LET t == handleBackToDashboard(Self)
       IN  /\ t.modals > modals => Issued(t) <= MaxRequests
           /\ Commit(t)
    /\ lastOp' = "other"
    /\ UNCHANGED <<srVars, ptVars, aiVars, rlVars>>

\* a click on "Continue Learning" in a confirmation modal
ContinuePressed ==
    /\ modals > 0
    /\ Commit(continueLearning(Self))
    /\ lastOp' = "continueLearning"
    /\ UNCHANGED <<srVars, ptVars, aiVars, rlVars>>

\* a click on "Leave (Lose XP)" in a confirmation modal
LeavePressed ==
    /\ modals > 0
    /\ Commit(confirmLeave(Self))
    /\ lastOp' = "other"
    /\ UNCHANGED <<srVars, ptVars, aiVars, rlVars>>

\* the remote service answers a request in flight (or the fetch fails): the
\* request is settled and its continuation is queued
RemoteReplies ==
    \E i \in 1..Len(network) :
        /\ ~network[i].settled
        /\ network' = [network EXCEPT ![i].settled = TRUE]
        /\ lastOp' = "other"
        /\ UNCHANGED <<screen, currentTopic, conversationStartTime, messages,
                       messageCount, isListening, recordingActive, isTutorTyping,
                       tutorHasGreeted, conversationComplete, inputDisabled, userInput,
                       modals, chatPosts, sttStartPosts, sttStopPosts, endPosts,
                       progressPosts>>
        /\ UNCHANGED <<srVars, ptVars, aiVars, rlVars>>

\* request i has settled: the function awaiting it resumes
Settled(i, endpoint) ==
    /\ network[i].endpoint = endpoint
    /\ network[i].settled

Rest(i) == [Self EXCEPT !.network = Without(network, i)]

\* startConversation resumes with the reply to request i
InitTopicSettledWith(i, reply) ==
    /\ Settled(i, "init-topic")
    /\ Commit(startConversationResumed(Rest(i), reply))
    /\ lastOp' = "other"
    /\ UNCHANGED <<srVars, ptVars, aiVars, rlVars>>

InitTopicSettled ==
    \E i \in 1..Len(network) : \E reply \in InitReplies : InitTopicSettledWith(i, reply)

\* sendMessage resumes with the reply to request i
ChatSettledWith(i, reply) ==
    /\ Settled(i, "chat")
    /\ Commit(sendMessageResumed(Rest(i), reply))
    /\ lastOp' = "other"
    /\ UNCHANGED <<srVars, ptVars, aiVars, rlVars>>

ChatSettled ==
    \E i \in 1..Len(network) : \E reply \in ChatReplies : ChatSettledWith(i, reply)

SttStartSettled ==
    \E i \in 1..Len(network) :
        /\ Settled(i, "stt-start")
        /\ \E reply \in SttStartReplies :
               Commit(startVoiceInputResumed(Rest(i), reply))
        /\ lastOp' = "other"
        /\ UNCHANGED <<srVars, ptVars, aiVars, rlVars>>

\* stopVoiceInput resumes with the reply to request i
SttStopSettledWith(i, reply) ==
    /\ Settled(i, "stt-stop")
    /\ LET t == stopVoiceInputResumed(Rest(i), reply)
       IN  /\ t.chatPosts > chatPosts => Issued(t) <= MaxRequests
           /\ Commit(t)
    /\ lastOp' = "other"
    /\ UNCHANGED <<srVars, ptVars, aiVars, rlVars>>

SttStopSettled ==
    \E i \in 1..Len(network) : \E reply \in SttStopReplies : SttStopSettledWith(i, reply)

\* the continuations the event loop runs once their request has settled
Resume == InitTopicSettled \/ ChatSettled \/ SttStartSettled \/ SttStopSettled

Next ==
    \/ TopicChosen
    \/ SendPressed
    \/ VoiceTapped
    \/ BackPressed
    \/ ContinuePressed
    \/ LeavePressed
    \/ RemoteReplies
    \/ InitTopicSettled
    \/ ChatSettled
    \/ SttStartSettled
    \/ SttStopSettled

Spec == Init /\ [][Next]_vars

\* The event loop runs every continuation whose request has settled; nothing
\* obliges the remote service to answer.
FairSpec == Spec /\ WF_vars(Resume)

(***************************************************************************)
(* The scheduler's operations.  Items are kept in insertion order, which   *)
(* is the order Object.values gives; an item's id is its place in it       *)
(* (Date.now() differs between two additions).                             *)
(***************************************************************************)
\* addSpacedRepetitionItem(phrase, translation, topicId)
AddItemWithin(maxItems) ==
    \E topicId \in TopicIds :
        /\ Len(items) < maxItems
        /\ items' = Append(items, newItem(topicId, now))
        /\ reviewLog' = Append(reviewLog, <<>>)
        /\ UNCHANGED <<now, dueItems, convVars, ptVars, aiVars, rlVars>>

AddItem == AddItemWithin(MaxItems)

\* updateSpacedRepetitionItem(itemId, quality); the bound counts the reviews
\* made and the items stored beyond the first
ReviewWithin(maxReviews) ==
    \E itemId \in 1..Len(items) : \E quality \in Qualities : \E tieUp \in BOOLEAN :
        /\ ReviewsMade + Len(items) <= maxReviews
        /\ LET item == updateSpacedRepetitionItem(items[itemId], quality, now, tieUp)
           IN  /\ items' = [items EXCEPT ![itemId] = item]
               /\ reviewLog' =
                      [reviewLog EXCEPT ![itemId] =
                          Append(@, [quality |-> quality,
                                     interval |-> item.interval,
                                     repetitions |-> item.repetitions,
                                     ease_factor |-> item.ease_factor])]
        /\ UNCHANGED <<now, dueItems, convVars, ptVars, aiVars, rlVars>>

Review == ReviewWithin(MaxReviews)

\* updateSpacedRepetitionItem with an id that is not stored returns at once,
\* before it reads the quality
ReviewUnknown == UNCHANGED vars

\* a day passes
DayPassesWithin(maxDay) ==
    /\ now < maxDay
    /\ now' = now + 1
    /\ UNCHANGED <<items, reviewLog, dueItems, convVars, ptVars, aiVars, rlVars>>

DayPasses == DayPassesWithin(MaxDay)

NextSR == AddItem \/ Review \/ ReviewUnknown \/ DayPasses

SpecSR == Init /\ [][NextSR]_vars

\* the scheduler over longer review runs
ReviewLong == ReviewWithin(MaxLongReviews)

NextSRLong == AddItem \/ ReviewLong \/ ReviewUnknown \/ DayPasses

SpecSRLong == Init /\ [][NextSRLong]_vars

\* the scheduler with several items and its due list
AddItemDue == AddItemWithin(MaxDueItems)

ReviewDue == ReviewWithin(MaxDueReviews)

DayPassesDue == DayPassesWithin(MaxDueDay)

\* getDueSpacedRepetitionItems()
GetDue ==
    /\ dueItems' = getDueSpacedRepetitionItems(items, now)
    /\ UNCHANGED <<items, reviewLog, now, convVars, ptVars, aiVars, rlVars>>

NextDue == AddItemDue \/ ReviewDue \/ ReviewUnknown \/ DayPassesDue \/ GetDue

SpecDue == Init /\ [][NextDue]_vars

(***************************************************************************)
(* The progress operations.                                                *)
(***************************************************************************)
CommitTracker(t) ==
    /\ progress' = t.progress
    /\ streakData' = t.streakData
    /\ storage' = t.storage
    /\ activityDays' = t.activityDays
    /\ progressCalls' = progressCalls + 1
    /\ UNCHANGED badgesConfigured

\* progressTracker.updateConversationProgress(topicId)
UpdateConversationProgressCall(topicId) ==
    /\ progressCalls < MaxProgressCalls
    /\ CommitTracker(updateConversationProgress(Tracker, topicId, now))
    /\ UNCHANGED <<topicsCurrentTopic, srVars, convVars, aiVars, rlVars>>

\* progressTracker.updatePhrasesLearned(count, topicId)
UpdatePhrasesLearnedCall(count, topicId) ==
    /\ progressCalls < MaxProgressCalls
    /\ CommitTracker(updatePhrasesLearned(Tracker, count, topicId, now))
    /\ UNCHANGED <<topicsCurrentTopic, srVars, convVars, aiVars, rlVars>>

\* progressTracker.completeTopic(topicId)
CompleteTopicCall(topicId) ==
    /\ progressCalls < MaxProgressCalls
    /\ CommitTracker(completeTopic(Tracker, topicId, now))
    /\ UNCHANGED <<topicsCurrentTopic, srVars, convVars, aiVars, rlVars>>

\* progressTracker.resetDailyProgress()
ResetDailyProgressCall ==
    /\ progressCalls < MaxProgressCalls
    /\ CommitTracker(resetDailyProgress(Tracker))
    /\ UNCHANGED <<topicsCurrentTopic, srVars, convVars, aiVars, rlVars>>

\* topicsManager.startTopic(topicId)
StartTopicCall(topicId) ==
    /\ progressCalls < MaxProgressCalls
    /\ IF InCatalog(topicId)
       THEN /\ topicsCurrentTopic' = topicId
            /\ CommitTracker(updateConversationProgress(Tracker, topicId, now))
       ELSE /\ progressCalls' = progressCalls + 1
            /\ UNCHANGED <<topicsCurrentTopic, progress, streakData, storage, activityDays,
                         badgesConfigured>>
    /\ UNCHANGED <<srVars, convVars, aiVars, rlVars>>

\* topicsManager.markPhraseAsLearned()
MarkPhraseAsLearnedCall ==
    /\ progressCalls < MaxProgressCalls
    /\ IF topicsCurrentTopic # "null" /\ getTopicPhrasesLength(topicsCurrentTopic) > 0
       THEN /\ items' = Append(items, newItem(topicsCurrentTopic, now))
            /\ reviewLog' = Append(reviewLog, <<>>)
            /\ CommitTracker(updatePhrasesLearned(Tracker, 1, topicsCurrentTopic, now))
       ELSE /\ progressCalls' = progressCalls + 1
            /\ UNCHANGED <<items, reviewLog, progress, streakData, storage, activityDays,
                         badgesConfigured>>
    /\ UNCHANGED <<topicsCurrentTopic, now, dueItems, convVars, aiVars, rlVars>>

\* topicsManager.completeTopic()
CompleteCurrentTopicCall ==
    /\ progressCalls < MaxProgressCalls
    /\ IF topicsCurrentTopic # "null"
       THEN CommitTracker(completeTopic(Tracker, topicsCurrentTopic, now))
       ELSE /\ progressCalls' = progressCalls + 1
            /\ UNCHANGED <<progress, streakData, storage, activityDays, badgesConfigured>>
    /\ UNCHANGED <<topicsCurrentTopic, srVars, convVars, aiVars, rlVars>>

UpdateConversationProgressCalled == \E topicId \in TopicArgs : UpdateConversationProgressCall(topicId)

UpdatePhrasesLearnedCalled ==
    \E count \in Counts : \E topicId \in TopicArgs \cup {"null"} :
        UpdatePhrasesLearnedCall(count, topicId)

CompleteTopicCalled == \E topicId \in TopicArgs : CompleteTopicCall(topicId)

StartTopicCalled == \E topicId \in TopicArgs : StartTopicCall(topicId)

NextProgress ==
    \/ UpdateConversationProgressCalled
    \/ UpdatePhrasesLearnedCalled
    \/ CompleteTopicCalled
    \/ ResetDailyProgressCall
    \/ StartTopicCalled
    \/ MarkPhraseAsLearnedCall
    \/ CompleteCurrentTopicCall
    \/ DayPasses

SpecProgress == InitAnyConfig /\ [][NextProgress]_vars

(***************************************************************************)
(* The streak over several days and page loads.                            *)
(***************************************************************************)
\* progressTracker.updateStudyTime(minutes)
UpdateStudyTimeCall ==
    \E minutes \in StudyMinutes :
        /\ progressCalls < MaxStreakCalls
        /\ CommitTracker(updateStudyTime(Tracker, minutes, now))
        /\ UNCHANGED <<topicsCurrentTopic, srVars, convVars, aiVars, rlVars>>

\* the page is loaded again: App creates a new ProgressTracker(), whose
\* constructor reads the progress and the streak from local storage
NewProgressTracker ==
    /\ progress' = storage.progress
    /\ streakData' = loadStreakData(storage, now)
    /\ UNCHANGED <<storage, activityDays, topicsCurrentTopic, progressCalls,
                   badgesConfigured, srVars, convVars, aiVars, rlVars>>

DayPassesStreak == DayPassesWithin(MaxStreakDay)

NextStreak == UpdateStudyTimeCall \/ NewProgressTracker \/ DayPassesStreak

SpecStreak == InitAnyConfig /\ [][NextStreak]_vars

(***************************************************************************)
(* The AIManager specification.                                            *)
(***************************************************************************)
\* makeAIRequest: the request is queued with its promise pending and
\* processRequestQueue is called
MakeAIRequest ==
    \E id \in 1..MaxAIRequests :
        /\ aiPromises[id] = "none"
        /\ \A other \in 1..(id - 1) : aiPromises[other] # "none"
        /\ CommitAI(processRequestQueue(
                        [AI EXCEPT !.requestQueue = Append(@, id),
                                   !.promises[id] = "pending"], aiClock))
        /\ UNCHANGED <<aiClock, aiRejections, aiClears, rlVars, convVars, srVars, ptVars>>

\* the response of a fetch arrives and call k of processRequestQueue goes
\* on: a 429 sets the block if it has a Retry-After header, puts the request
\* back and leaves the loop; otherwise the promise is resolved or rejected
\* (a settled promise stays as it is) and the call waits a second
AIFetchSettled ==
    \E k \in 1..Len(aiLoops), reply \in AIReplies :
        /\ aiLoops[k].pc = "fetch"
        /\ reply.status = "429" => aiRejections < MaxAIRejections
        /\ LET request == aiLoops[k].request IN
           IF reply.status = "429"
           THEN CommitAI(processRequestQueueExit(
                    [AI EXCEPT !.rateLimitInfo.blocked_until =
                                   IF reply.retryAfter # -1
                                   THEN aiClock + reply.retryAfter ELSE @,
                               !.requestQueue = <<request>> \o @],
                    aiClock, k))
           ELSE CommitAI(
                    [AI EXCEPT !.promises[request] =
                                   IF @ # "pending" THEN @
                                   ELSE IF reply.status = "ok" THEN "resolved"
                                   ELSE "rejected",
                               !.loops[k] = [pc |-> "delay", request |-> 0]])
        /\ aiRejections' = IF reply.status = "429" THEN aiRejections + 1 ELSE aiRejections
        /\ UNCHANGED <<aiClock, aiClears, rlVars, convVars, srVars, ptVars>>

\* the one second between two requests has passed
AIDelayElapsed ==
    \E k \in 1..Len(aiLoops) :
        /\ aiLoops[k].pc = "delay"
        /\ CommitAI(processRequestQueueLoop(AI, aiClock, k))
        /\ UNCHANGED <<aiClock, aiRejections, aiClears, rlVars, convVars, srVars, ptVars>>

\* a retry timer set by processRequestQueue fires
AITimerFires ==
    /\ aiTimers > 0
    /\ CommitAI(processRequestQueue([AI EXCEPT !.timers = @ - 1], aiClock))
    /\ UNCHANGED <<aiClock, aiRejections, aiClears, rlVars, convVars, srVars, ptVars>>

\* clearRequestQueue: the queued requests are rejected, the queue is emptied
\* and the flag is lowered
ClearRequestQueue ==
    /\ aiClears < MaxAIClears
    /\ CommitAI([AI EXCEPT
                    !.promises =
                        [id \in DOMAIN aiPromises |->
                            IF /\ aiPromises[id] = "pending"
                               /\ \E i \in 1..Len(requestQueue) : requestQueue[i] = id
                            THEN "rejected" ELSE aiPromises[id]],
                    !.requestQueue = <<>>,
                    !.isProcessingQueue = FALSE])
    /\ aiClears' = aiClears + 1
    /\ UNCHANGED <<aiClock, aiRejections, rlVars, convVars, srVars, ptVars>>

\* a second passes; a block always runs out
AITick ==
    /\ aiClock < MaxAIClock \/ isBlocked(AI, aiClock)
    /\ aiClock' = aiClock + 1
    /\ UNCHANGED <<requestQueue, isProcessingQueue, rateLimitInfo, aiLoops, aiTimers,
                   aiPromises, aiSent, aiRejections, aiClears, rlVars, convVars,
                   srVars, ptVars>>

NextAI ==
    \/ MakeAIRequest
    \/ AIFetchSettled
    \/ AIDelayElapsed
    \/ AITimerFires
    \/ ClearRequestQueue
    \/ AITick

SpecAI == Init /\ [][NextAI]_vars

\* the server answers every fetch, timers fire and time passes
FairSpecAI ==
    /\ SpecAI
    /\ WF_vars(AIFetchSettled)
    /\ WF_vars(AIDelayElapsed)
    /\ WF_vars(AITimerFires)
    /\ WF_vars(AITick)

(***************************************************************************)
(* The rate limiter specification.                                         *)
(***************************************************************************)
\* Utils.makeAPIRequest asks the limiter
CanMakeRequestCall ==
    \E key \in RateLimitKeys :
        LET r == canMakeRequest(rateLimiterRequests, key, rateLimiterNow) IN
        /\ rateLimiterRequests' = r.requests
        /\ lastAdmitted' = IF r.result THEN "true" ELSE "false"
        /\ admittedInMinute' = IF r.result THEN [admittedInMinute EXCEPT ![key] = @ + 1]
                                           ELSE admittedInMinute
        /\ admittedInHour' = IF r.result THEN [admittedInHour EXCEPT ![key] = @ + 1]
                                         ELSE admittedInHour
        /\ UNCHANGED <<rateLimiterNow, aiVars, convVars, srVars, ptVars>>

\* the next minute begins; callers in the model ask until they are refused
\* or not at all in a minute
MinutePasses ==
    /\ rateLimiterNow < RateLimitEpoch + MaxRateLimitMinutes
    /\ lastAdmitted \in {"none", "false"}
    /\ rateLimiterNow' = rateLimiterNow + 1
    /\ admittedInMinute' = [key \in RateLimitKeys |-> 0]
    /\ admittedInHour' = IF (rateLimiterNow + 1) \div 60 = rateLimiterNow \div 60
                         THEN admittedInHour
                         ELSE [key \in RateLimitKeys |-> 0]
    /\ lastAdmitted' = "none"
    /\ UNCHANGED <<rateLimiterRequests, aiVars, convVars, srVars, ptVars>>

NextRateLimiter == CanMakeRequestCall \/ MinutePasses

SpecRateLimiter == Init /\ [][NextRateLimiter]_vars

(***************************************************************************)
(* Properties of the conversation.                                         *)
(***************************************************************************)
ChatInFlight == {i \in 1..Len(network) : network[i].endpoint = "chat"}

ErrorMessages == {CannotConnectMessage, ServerErrorMessage, ConnectionErrorMessage}

\* the step is the continuation of a chat request that failed
ChatFailed ==
    \E i \in 1..Len(network) : \E reply \in ChatReplies :
        reply.tag # "ok" /\ ChatSettledWith(i, reply)

\* the request was issued by a conversation that has since been torn down
TornDown(request) ==
    screen = "dashboard" \/ request.session # conversationStartTime

\* sendMessage would be accepted in state s if a text were typed
Accepts(s) ==
    LET typed == [s EXCEPT !.userInput = <<"hello">>]
    IN  sendMessage(typed).chatPosts = s.chatPosts + 1

\* C1: at most one chat request is outstanding at any moment, and a
\* sendMessage call made while isTutorTyping is true (from the send button, the
\* Enter key or the auto-submit of a transcript) appends nothing to the log,
\* leaves messageCount unchanged and issues no request.
C1_OneOutstandingChat ==
    /\ [](Cardinality(ChatInFlight) <= 1)
    /\ [][(isTutorTyping /\ (SendPressed \/ SttStopSettled))
            => UNCHANGED <<messages, messageCount, chatPosts>>
               /\ Cardinality(ChatInFlight') = Cardinality(ChatInFlight)]_vars

\* a send was turned down while the tutor was typing and a request was in flight
C1_Witness ==
    /\ lastOp = "sendMessage rejected"
    /\ isTutorTyping
    /\ tutorHasGreeted
    /\ ChatInFlight # {}

\* C2: a chat response that arrives after its session has been torn down is
\* ignored: it appends no message and does not change conversationComplete.
C2_StaleResponseIgnored ==
    [][(\E i \in 1..Len(network) : \E reply \in ChatReplies :
            TornDown(network[i]) /\ ChatSettledWith(i, reply))
        => UNCHANGED <<messages, conversationComplete>>]_vars

\* C3: whenever a session is left while conversationComplete is true, the
\* completed-conversation progress report is issued for that session.
C3_CompletedLeaveAwardsXP ==
    [][(screen = "conversation" /\ screen' = "dashboard" /\ conversationComplete)
        => progressPosts' = Append(progressPosts, conversationStartTime)]_vars

\* C4: the continuation that handles a failed chat request sets isTutorTyping
\* to false and re-enables the input, so that the next sendMessage of the
\* (greeted) session is accepted.
C4_FailureReenablesInput ==
    [][ChatFailed
        => /\ ~isTutorTyping'
           /\ ~inputDisabled'
           /\ tutorHasGreeted' => Accepts(Self')]_vars

\* a failure has been handled and the session takes input again
C4_Witness ==
    /\ screen = "conversation"
    /\ messages # <<>>
    /\ messages[Len(messages)].text \in ErrorMessages
    /\ ~isTutorTyping
    /\ ~inputDisabled
    /\ Accepts(Self)

\* C5: no operation blocks indefinitely: after startConversation the session
\* eventually reaches Idle (tutorHasGreeted, input enabled) and after every
\* accepted sendMessage the input is eventually re-enabled, even if the remote
\* service never answers.
C5_NoIndefiniteBlock ==
    /\ (\E i \in 1..Len(network) : network[i].endpoint = "init-topic")
          ~> (tutorHasGreeted /\ ~inputDisabled)
    /\ (ChatInFlight # {}) ~> ~inputDisabled

\* C6: a stop request (toggleVoiceInput while isListening) made before the
\* recording is active is rejected: no request goes to the stop endpoint and
\* the recording state is unchanged.
C6_EarlyStopRejected ==
    [][(isListening /\ ~recordingActive /\ VoiceTapped)
        => UNCHANGED <<isListening, recordingActive, sttStopPosts, network>>]_vars

\* a tap was turned down while the recording was starting
C6_Witness ==
    /\ lastOp = "toggleVoiceInput rejected"
    /\ isListening
    /\ ~recordingActive
    /\ ~isTutorTyping
    /\ tutorHasGreeted

\* C7: pressing back while conversationComplete is false never leaves the
\* session but opens a confirmation; confirming the leave ends the session
\* without a progress report; choosing to continue changes no session variable.
C7_IncompleteLeaveConfirmed ==
    [][/\ (BackPressed /\ ~conversationComplete)
            => /\ screen' = "conversation"
               /\ modals' = modals + 1
               /\ UNCHANGED <<endPosts, progressPosts>>
       /\ LeavePressed
            => /\ screen' = "dashboard"
               /\ endPosts' = Append(endPosts, conversationStartTime)
               /\ UNCHANGED progressPosts
       /\ ContinuePressed
            => UNCHANGED <<screen, currentTopic, conversationStartTime, messages,
                           messageCount, isListening, recordingActive, isTutorTyping,
                           tutorHasGreeted, conversationComplete, inputDisabled,
                           userInput, network, endPosts, progressPosts>>]_vars

\* an unfinished conversation was left through the confirmation, unreported
C7_Witness ==
    /\ screen = "dashboard"
    /\ modals = 0
    /\ ~conversationComplete
    /\ messageCount > 0
    /\ endPosts = <<conversationStartTime>>
    /\ progressPosts = <<>>

\* C8: a failed chat request is neither retried nor duplicated: an accepted
\* submit issues exactly one request and logs the user message once, and the
\* failure issues no request, keeps messageCount and appends exactly one error
\* message.
C8_FailureNotRetried ==
    [][/\ (SendPressed /\ chatPosts' # chatPosts)
            => /\ chatPosts' = chatPosts + 1
               /\ Cardinality(ChatInFlight') = Cardinality(ChatInFlight) + 1
               /\ messageCount' = messageCount + 1
               /\ Len(messages') = Len(messages) + 1
               /\ messages'[Len(messages')].sender = "user"
       /\ ChatFailed
            => /\ chatPosts' = chatPosts
               /\ Cardinality(ChatInFlight') = Cardinality(ChatInFlight) - 1
               /\ messageCount' = messageCount
               /\ \E e \in ErrorMessages :
                      messages' = Append(messages, [sender |-> "ai", text |-> e])]_vars

\* one submit, one request, one failure: the log holds the welcome, the user
\* message and one error message
C8_Witness ==
    /\ chatPosts = 1
    /\ messageCount = 1
    /\ ChatInFlight = {}
    /\ Len(messages) = 3
    /\ messages[2].sender = "user"
    /\ messages[3].text \in ErrorMessages

(***************************************************************************)
(* Properties of the scheduler.                                            *)
(***************************************************************************)
\* the first n reviews of the item all had quality q
FirstReviewsAll(itemId, n, q) ==
    /\ Len(reviewLog[itemId]) >= n
    /\ \A i \in 1..n : reviewLog[itemId][i].quality = q

\* C9 as claimed: from a fresh item, four reviews of quality 5 give the
\* intervals 1, 6, 15 (round(6 x 2.5)) and round(15 x ease_factor), the ease
\* factor following the update formula.
C9_ScenarioA_AsClaimed ==
    \A itemId \in 1..Len(items) :
        LET log == reviewLog[itemId]
        IN  /\ FirstReviewsAll(itemId, 1, 5)
                => log[1].interval = 1 /\ log[1].ease_factor = 260
            /\ FirstReviewsAll(itemId, 2, 5)
                => log[2].interval = 6 /\ log[2].ease_factor = 270
            /\ FirstReviewsAll(itemId, 3, 5)
                => log[3].interval = 15 /\ log[3].ease_factor = 280
            /\ FirstReviewsAll(itemId, 4, 5)
                => /\ log[4].interval = roundProduct(15, log[3].ease_factor, TRUE)
                   /\ log[4].ease_factor = 290

\* C9, amended: from a fresh item, four reviews of quality 5 give the intervals
\* 1, 6, 16 (round(6 x 2.7)) and 45 (round(16 x 2.8)): each product uses the
\* ease factor as the earlier reviews have updated it (2.6, 2.7, 2.8, 2.9).
C9_ScenarioA ==
    \A itemId \in 1..Len(items) :
        LET log == reviewLog[itemId]
        IN  /\ FirstReviewsAll(itemId, 1, 5)
                => log[1].interval = 1 /\ log[1].ease_factor = 260
            /\ FirstReviewsAll(itemId, 2, 5)
                => log[2].interval = 6 /\ log[2].ease_factor = 270
            /\ FirstReviewsAll(itemId, 3, 5)
                => log[3].interval = 16 /\ log[3].ease_factor = 280
            /\ FirstReviewsAll(itemId, 4, 5)
                => log[4].interval = 45 /\ log[4].ease_factor = 290

\* an item has had its first four reviews, all of quality 5
C9_Witness ==
    \E itemId \in 1..Len(items) :
        /\ FirstReviewsAll(itemId, 4, 5)
        /\ items[itemId].interval = 45
        /\ items[itemId].repetitions = 4

\* C10: in a run of consecutive reviews with quality >= 3 the interval after
\* each review is at least the interval after the previous review of the run.
C10_IntervalNonDecreasing ==
    \A itemId \in 1..Len(items) :
        \A i \in 2..Len(reviewLog[itemId]) :
            (reviewLog[itemId][i - 1].quality >= 3 /\ reviewLog[itemId][i].quality >= 3)
                => reviewLog[itemId][i].interval >= reviewLog[itemId][i - 1].interval

\* a run of three successful reviews after a failed one, the interval growing
C10_Witness ==
    \E itemId \in 1..Len(items) :
        LET log == reviewLog[itemId]
        IN  /\ Len(log) = 4
            /\ log[1].quality < 3
            /\ \A i \in 2..4 : log[i].quality >= 3
            /\ log[2].interval < log[3].interval
            /\ log[3].interval < log[4].interval

\* C11: after any sequence of reviews every item's interval lies in
\* MIN_INTERVAL..MAX_INTERVAL.
C11_IntervalClamped ==
    \A itemId \in 1..Len(items) :
        /\ items[itemId].interval >= MIN_INTERVAL
        /\ items[itemId].interval <= MAX_INTERVAL

\* the qualities of the item's reviews so far all lie in 0..5
ValidQualities(itemId) ==
    \A i \in 1..Len(reviewLog[itemId]) : reviewLog[itemId][i].quality \in 0..5

\* C12: for every sequence of reviews with qualities in 0..5 the ease factor
\* is at least MIN_FACTOR after every review.
C12_EaseFactorFloor ==
    \A itemId \in 1..Len(items) :
        ValidQualities(itemId)
            => /\ items[itemId].ease_factor >= MIN_FACTOR
               /\ \A i \in 1..Len(reviewLog[itemId]) :
                      reviewLog[itemId][i].ease_factor >= MIN_FACTOR

\* a review whose update formula gives less than MIN_FACTOR was held at it:
\* two reviews of quality 0 take 2.5 to 1.7 and then to 0.9
C12_Witness ==
    \E itemId \in 1..Len(items) :
        LET log == reviewLog[itemId]
        IN  /\ Len(log) = 2
            /\ log[1].quality = 0 /\ log[1].ease_factor = 170
            /\ log[2].quality = 0 /\ log[2].ease_factor = MIN_FACTOR
            /\ items[itemId].ease_factor = MIN_FACTOR

\* C13: a review with quality < 3 leaves the item with repetitions = 0 and
\* interval = 1, whatever the item was before.
C13_FailureResets ==
    \A itemId \in 1..Len(items) :
        LET log == reviewLog[itemId]
        IN  /\ \A i \in 1..Len(log) :
                   log[i].quality < 3 => log[i].repetitions = 0 /\ log[i].interval = 1
            /\ (log # <<>> /\ log[Len(log)].quality < 3)
                   => items[itemId].repetitions = 0 /\ items[itemId].interval = 1

\* an item with three successful reviews and an interval above 6 was failed
C13_Witness ==
    \E itemId \in 1..Len(items) :
        LET log == reviewLog[itemId]
        IN  /\ Len(log) = 4
            /\ log[3].repetitions = 3
            /\ log[3].interval > 6
            /\ log[4].quality \in 0..2
            /\ items[itemId].repetitions = 0
            /\ items[itemId].interval = 1

\* the step is a review of item itemId with a quality outside 0..5
InvalidReview(itemId) ==
    /\ itemId \in 1..Len(reviewLog)
    /\ Len(reviewLog') = Len(reviewLog)
    /\ Len(reviewLog'[itemId]) = Len(reviewLog[itemId]) + 1
    /\ reviewLog'[itemId][Len(reviewLog'[itemId])].quality \notin 0..5

\* C14: a review with a quality outside 0..5 leaves the item unchanged.
C14_InvalidQualityRejected ==
    [][(\E itemId \in 1..Len(items) : InvalidReview(itemId))
        => UNCHANGED items]_vars

\* C15: getDueSpacedRepetitionItems returns exactly the stored items with
\* next_review <= now, each once, in ascending order of next_review, and
\* modifies no item, so that a second call at the same instant returns the same.
C15_DueItems ==
    [][GetDue
        => /\ UNCHANGED <<items, now>>
           /\ {dueItems'[k] : k \in 1..Len(dueItems')}
                  = {i \in 1..Len(items) : items[i].next_review <= now}
           /\ \A k, l \in 1..Len(dueItems') :
                  k < l => /\ dueItems'[k] # dueItems'[l]
                           /\ items[dueItems'[k]].next_review
                                  <= items[dueItems'[l]].next_review
           /\ getDueSpacedRepetitionItems(items', now') = dueItems']_vars

\* both items are due and the later one stored is due first
C15_Witness ==
    /\ dueItems = <<2, 1>>
    /\ Len(items) = 2
    /\ items[2].next_review < items[1].next_review
    /\ items[1].next_review <= now

(***************************************************************************)
(* Properties of topic progress.                                           *)
(***************************************************************************)
\* the level_completed achievements emitted so far
LevelCompletedEvents ==
    Cardinality({i \in 1..Len(progress.achievements) :
                    progress.achievements[i].type = "level_completed"})

\* every topic of the user's level has status completed
LevelCompleted ==
    \A i \in 1..Len(LevelTopics) :
        progress.level_progress[LevelTopics[i]].status = "completed"

\* C16: the completeTopic call that completes the last topic of the level
\* emits exactly one level-completed event, and later completeTopic calls on
\* completed topics emit no more: there is one event once the level is
\* completed and none before.
C16_LevelCompletedOnce ==
    LevelCompletedEvents = IF LevelCompleted THEN 1 ELSE 0

StatusRank(status) ==
    IF status = "not_started" THEN 0 ELSE IF status = "in_progress" THEN 1 ELSE 2

\* C17: a topic's status only moves forward (not_started, in_progress,
\* completed) in every step of every operation, and no topic's entry is lost.
C17_StatusMonotonic ==
    [][\A id \in DOMAIN progress.level_progress :
           /\ id \in DOMAIN progress'.level_progress
           /\ StatusRank(progress'.level_progress[id].status)
                  >= StatusRank(progress.level_progress[id].status)]_vars

\* a completed topic was practised again on a later day and is still completed
C17_Witness ==
    \E id \in DOMAIN progress.level_progress :
        LET entry == progress.level_progress[id]
        IN  /\ entry.status = "completed"
            /\ entry.completion_date # -1
            /\ entry.last_practiced > entry.completion_date
            /\ entry.conversations_completed >= 1

C19_CompleteRecordsActivity ==
    [][\A id \in DOMAIN progress.level_progress :
           CompleteTopicCall(id)
               => /\ progress'.level_progress[id].status = "completed"
                  /\ progress'.level_progress[id].completion_date = now
                  /\ streakData.last_activity_date # now
                         => /\ streakData'.last_activity_date = now
                            /\ streakData'.current_streak >= 1]_vars

\* the step is a progress operation called with topic id topicId
CalledWith(topicId) ==
    \/ StartTopicCall(topicId)
    \/ UpdateConversationProgressCall(topicId)
    \/ \E count \in Counts : UpdatePhrasesLearnedCall(count, topicId)
    \/ CompleteTopicCall(topicId)

\* C20: a progress operation called with a topic id that is not known leaves
\* the progress state unchanged.
C20_UnknownTopicRejected ==
    [][\A topicId \in TopicArgs :
           (~InCatalog(topicId) /\ topicId \notin DOMAIN progress.level_progress
                /\ CalledWith(topicId))
               => UNCHANGED <<progress, streakData>>]_vars

(***************************************************************************)
(* Properties of the progress counters.                                    *)
(***************************************************************************)
\* C21: no progress counter (total_phrases_learned, phrases_learned_today,
\* a topic's phrases_learned and conversations_completed) is negative in a
\* reachable state.
C21_CountersNonNegative ==
    /\ progress.total_phrases_learned >= 0
    /\ progress.phrases_learned_today >= 0
    /\ \A id \in DOMAIN progress.level_progress :
           /\ progress.level_progress[id].phrases_learned >= 0
           /\ progress.level_progress[id].conversations_completed >= 0

(***************************************************************************)
(* Properties of the streak.                                               *)
(***************************************************************************)
\* the number of consecutive days, ending with today, on which activity was
\* recorded
RECURSIVE RunLength(_, _)
RunLength(days, today) ==
    IF today \in days THEN 1 + RunLength(days, today - 1) ELSE 0

\* C22: an activity recorded on the day after the last one raises
\* current_streak by one, so that once activity is recorded today,
\* current_streak is the number k of consecutive days, ending today, on which
\* activity was recorded.
C22_ConsecutiveDaysCount ==
    streakData.last_activity_date = now
        => streakData.current_streak = RunLength(activityDays, now)

\* C23: an activity recorded when last_activity_date is null or more than one
\* day before today sets current_streak to 1 and streak_start_date to today,
\* whatever current_streak was.
C23_GapResets ==
    [][(/\ UpdateStudyTimeCall
        /\ \/ streakData.last_activity_date = -1
           \/ streakData.last_activity_date < now - 1)
           => /\ streakData'.current_streak = 1
              /\ streakData'.streak_start_date = now]_vars

\* a streak of two days or more was broken and a new one started today
C23_Witness ==
    /\ streakData.longest_streak >= 2
    /\ streakData.current_streak = 1
    /\ streakData.streak_start_date = now
    /\ streakData.last_activity_date = now
    /\ now - 2 \notin activityDays /\ now - 1 \notin activityDays

\* C24: an activity recorded on the day of last_activity_date changes neither
\* the streak in memory nor the saved one and emits no achievement.
C24_SameDayNoOp ==
    [][(UpdateStudyTimeCall /\ streakData.last_activity_date = now)
           => /\ UNCHANGED streakData
              /\ storage'.streak_data = storage.streak_data
              /\ progress'.achievements = progress.achievements]_vars

\* activity was recorded three times on the first day
C24_Witness ==
    /\ now = 0
    /\ progress.total_study_time >= 3
    /\ streakData.current_streak = 1
    /\ streakData.last_activity_date = 0

\* C25: current_streak <= longest_streak in the tracker and in the saved
\* streak, in every reachable state.
C25_CurrentAtMostLongest ==
    /\ streakData.current_streak <= streakData.longest_streak
    /\ storage.streak_data.current_streak <= storage.streak_data.longest_streak

\* a streak of three days was broken and the new one is two days long
C25_Witness ==
    /\ streakData.longest_streak = 3
    /\ streakData.current_streak = 2
    /\ streakData.streak_start_date = now - 1
    /\ streakData.last_activity_date = now

\* C26: longest_streak never decreases, whether activity is recorded or the
\* streak is loaded.
C26_LongestNeverDecreases ==
    [][streakData'.longest_streak >= streakData.longest_streak]_vars

\* the achievements of a type emitted so far
StreakEvents(achievements, type) ==
    {i \in 1..Len(achievements) : achievements[i].type = type}

\* C27: a streak milestone achievement is emitted only by the recording that
\* raises current_streak to the milestone, once, and not again for the same
\* crossing: no two achievements of the milestone are earned on the same day.
C27_MilestoneOnce ==
    [][\A type \in {"week_streak", "month_streak"} :
           LET milestone == IF type = "week_streak" THEN 7 ELSE 30
               before == StreakEvents(progress.achievements, type)
               after == StreakEvents(progress'.achievements, type)
           IN  /\ Cardinality(after) > Cardinality(before)
                      => /\ UpdateStudyTimeCall
                         /\ streakData.current_streak = milestone - 1
                         /\ streakData'.current_streak = milestone
                         /\ Cardinality(after) = Cardinality(before) + 1
               /\ \A i, j \in after :
                      i # j => progress'.achievements[i].earned_at
                                   # progress'.achievements[j].earned_at]_vars

(***************************************************************************)
(* Properties of the conversation: failures, initialization, input gate.   *)
(***************************************************************************)
\* C28: the continuation of a failed chat request appends the message of the
\* failure's class: 'cannot connect' for a rejected fetch, 'server error' for
\* a response with a 5xx status, the generic connection error for any other
\* failure.
C28_ErrorClassified ==
    [][\A i \in 1..Len(network) : \A reply \in ChatReplies :
           (reply.tag # "ok" /\ ChatSettledWith(i, reply))
               => LET classified ==
                          IF reply.tag = "fetch-rejected" THEN CannotConnectMessage
                          ELSE IF reply.tag = "http-error" /\ reply.text[1] = "5"
                          THEN ServerErrorMessage
                          ELSE ConnectionErrorMessage
                  IN  /\ Len(messages') = Len(messages) + 1
                      /\ messages'[Len(messages')].sender = "ai"
                      /\ messages'[Len(messages')].text = classified]_vars

\* C29: a topic-context initialization that fails (a response that is not OK
\* or a rejected fetch) does not end startConversation: its continuation
\* appends the welcome message to the log, sets tutorHasGreeted and enables
\* the input.
C29_InitFailureProceeds ==
    [][\A i \in 1..Len(network) : \A reply \in InitReplies :
           (reply.tag # "ok" /\ InitTopicSettledWith(i, reply))
               => /\ messages' = Append(messages, [sender |-> "ai", text |-> WelcomeMessage])
                  /\ tutorHasGreeted'
                  /\ ~inputDisabled']_vars

\* the state in which a failed initialization leaves a new conversation
C29_Witness ==
    /\ screen = "conversation"
    /\ network = <<>>
    /\ messages = <<[sender |-> "ai", text |-> WelcomeMessage]>>
    /\ messageCount = 0
    /\ tutorHasGreeted
    /\ ~inputDisabled

\* C30: while tutorHasGreeted is false or isTutorTyping is true, sendMessage,
\* startVoiceInput and toggleVoiceInput append nothing to the log, leave
\* messageCount and the recording state unchanged and issue no request.
C30_InputGate ==
    /\ []((isTutorTyping \/ ~tutorHasGreeted) => startVoiceInput(Self) = Self)
    /\ [][((isTutorTyping \/ ~tutorHasGreeted) /\ (SendPressed \/ VoiceTapped))
            => UNCHANGED <<messages, messageCount, isListening, recordingActive,
                           network, chatPosts, sttStartPosts, sttStopPosts>>]_vars

\* a typed text was turned down before the tutor had greeted
C30_Witness ==
    /\ lastOp = "sendMessage rejected"
    /\ ~tutorHasGreeted
    /\ trim(userInput) # <<>>
    /\ messages = <<>>
    /\ messageCount = 0

(***************************************************************************)
(* Properties of the voice input.                                          *)
(***************************************************************************)
\* C31 as claimed: the continuation of a stop request whose reply carries a
\* transcript that is neither empty nor 'LEGAL' after trimming appends it as
\* a user message, increments messageCount and issues a chat request; with
\* any other reply it submits nothing.
C31_TranscriptSubmitted_AsClaimed ==
    [][\A i \in 1..Len(network) : \A reply \in SttStopReplies :
           SttStopSettledWith(i, reply)
               => IF /\ reply.tag = "ok"
                     /\ trim(reply.text) \notin {<<>>, <<"LEGAL">>}
                  THEN /\ messages' = Append(messages, [sender |-> "user",
                                                        text |-> trim(reply.text)])
                       /\ messageCount' = messageCount + 1
                       /\ chatPosts' = chatPosts + 1
                  ELSE UNCHANGED <<messages, messageCount, chatPosts>>]_vars

\* C31: the same where the transcript arrives while the input gate of
\* sendMessage is open (the tutor has greeted and is not typing); a
\* transcript that arrives while the gate is closed submits nothing.
C31_TranscriptSubmitted ==
    [][\A i \in 1..Len(network) : \A reply \in SttStopReplies :
           SttStopSettledWith(i, reply)
               => IF /\ reply.tag = "ok"
                     /\ trim(reply.text) \notin {<<>>, <<"LEGAL">>}
                     /\ tutorHasGreeted /\ ~isTutorTyping
                  THEN /\ messages' = Append(messages, [sender |-> "user",
                                                        text |-> trim(reply.text)])
                       /\ messageCount' = messageCount + 1
                       /\ chatPosts' = chatPosts + 1
                  ELSE UNCHANGED <<messages, messageCount, chatPosts>>]_vars

\* a transcript was submitted by the stop of a recording: the last message
\* is the learner's, no text was typed, and the recording has ended
C31_Witness ==
    /\ messages # <<>>
    /\ messages[Len(messages)] = [sender |-> "user", text |-> <<"hello">>]
    /\ sttStopPosts >= 1
    /\ ~isListening
    /\ isTutorTyping
    /\ ChatInFlight # {}
    /\ \A i \in 1..Len(network) : network[i].endpoint # "stt-stop"

(***************************************************************************)
(* Properties of the message log.                                          *)
(***************************************************************************)
\* the place of the next user message after place i, or one past the end
NextUserMessage(i) ==
    IF \E j \in (i + 1)..Len(messages) : messages[j].sender = "user"
    THEN CHOOSE j \in (i + 1)..Len(messages) :
             /\ messages[j].sender = "user"
             /\ \A k \in (i + 1)..(j - 1) : messages[k].sender # "user"
    ELSE Len(messages) + 1

\* C32: between two startConversation calls the log only grows at its end,
\* and a user message is followed, before the next user message, by exactly
\* one tutor reply and at most the completion message after it (the reply
\* may still be awaited after the last user message).
C32_LogAppendOnly ==
    /\ [][conversationStartTime' = conversationStartTime
            => /\ Len(messages') >= Len(messages)
               /\ SubSeq(messages', 1, Len(messages)) = messages]_vars
    /\ [](\A i \in 1..Len(messages) :
              messages[i].sender = "user"
                  => LET next == NextUserMessage(i)
                         replies == next - i - 1
                     IN  /\ next <= Len(messages) => replies >= 1
                         /\ replies <= 2
                         /\ replies = 2 => messages[i + 2].text = CongratsMessage)

(***************************************************************************)
(* Properties of leaving a conversation.                                   *)
(***************************************************************************)
\* the step is a leave: the back button of a completed conversation or the
\* "Leave" button of a confirmation
Leaves == LeavePressed \/ (BackPressed /\ conversationComplete)

\* C33: every leave issues a stop request where a recording is in progress,
\* sends exactly one session-end notification for the session and shows the
\* dashboard in the same task, before the notification can succeed or fail.
C33_LeaveTearsDown ==
    [][Leaves
         => /\ endPosts' = Append(endPosts, conversationStartTime)
            /\ screen' = "dashboard"
            /\ IF isListening
               THEN /\ sttStopPosts' = sttStopPosts + 1
                    /\ Len(network') = Len(network) + 1
                    /\ network'[Len(network')].endpoint = "stt-stop"
               ELSE UNCHANGED <<sttStopPosts, network>>]_vars

\* a conversation was left while its recording was starting: the session end
\* was notified and the stop request is in flight
C33_Witness ==
    /\ screen = "dashboard"
    /\ Len(endPosts) = 1
    /\ isListening
    /\ sttStopPosts = 1
    /\ \E i \in 1..Len(network) : network[i].endpoint = "stt-start"
    /\ \E i \in 1..Len(network) : network[i].endpoint = "stt-stop"

(***************************************************************************)
(* Properties of the completion flag.                                      *)
(***************************************************************************)
\* C34: conversationComplete becomes true only in the continuation of a chat
\* request whose successful response contains 'LESSON_COMPLETE', which also
\* appends the completion message and enables the input; the continuation of
\* a failed request or of a response without the sentinel leaves the flag as
\* it is; a flag that is set is reset by startConversation only.
C34_CompletionFlag ==
    /\ [][(~conversationComplete /\ conversationComplete')
            => /\ \E i \in 1..Len(network) : \E reply \in ChatReplies :
                      /\ reply.tag = "ok"
                      /\ includes(reply.text, "LESSON_COMPLETE")
                      /\ ChatSettledWith(i, reply)
               /\ messages'[Len(messages')] = [sender |-> "ai", text |-> CongratsMessage]
               /\ ~inputDisabled']_vars
    /\ [][\A i \in 1..Len(network) : \A reply \in ChatReplies :
              (/\ ChatSettledWith(i, reply)
               /\ reply.tag # "ok" \/ ~includes(reply.text, "LESSON_COMPLETE"))
                  => conversationComplete' = conversationComplete]_vars
    /\ [][(conversationComplete /\ ~conversationComplete') => TopicChosen]_vars

\* the lesson has just been completed
C34_Witness ==
    /\ screen = "conversation"
    /\ conversationComplete
    /\ Len(messages) >= 2
    /\ messages[Len(messages)].text = CongratsMessage
    /\ includes(messages[Len(messages) - 1].text, "LESSON_COMPLETE")
    /\ ~inputDisabled
    /\ ~isTutorTyping

(***************************************************************************)
(* Properties of the recording lifecycle.                                  *)
(***************************************************************************)
\* C35: recordingActive implies isListening in every reachable state.
C35_ActiveImpliesListening == recordingActive => isListening

\* the stop requests in flight
StopInFlight == {i \in 1..Len(network) : network[i].endpoint = "stt-stop"}

\* C36: a started recording leads to at most one stop request: no more stop
\* requests are issued than recordings were started, and a stop request is
\* never issued while another one is in flight.
C36_OneStopPerRecording ==
    /\ sttStopPosts <= sttStartPosts
    /\ Cardinality(StopInFlight) <= 1

\* C37: every request enqueued by makeAIRequest is eventually settled, its
\* promise resolved or rejected, when the server answers every fetch, the
\* timers fire and every rate-limit block runs out
C37_EnqueuedEventuallySettled ==
    \A id \in 1..MaxAIRequests :
        (aiPromises[id] = "pending") ~> (aiPromises[id] \in {"resolved", "rejected"})

\* C38: at most one processRequestQueue loop is active, at most one request
\* is in flight, and the requests are handed to fetch in the order in which
\* they were enqueued (a request put back after a 429 is sent again first)
C38_OneLoopFifo ==
    /\ Len(aiLoops) <= 1
    /\ Cardinality({k \in 1..Len(aiLoops) : aiLoops[k].pc = "fetch"}) <= 1
    /\ \A i, j \in 1..Len(aiSent) : i < j => aiSent[i] <= aiSent[j]

\* C39: canMakeRequest never answers true more than REQUESTS_PER_MINUTE
\* times for one key within one minute, nor more than REQUESTS_PER_HOUR
\* times for that key within one hour
C39_WindowLimits ==
    \A key \in RateLimitKeys :
        /\ admittedInMinute[key] <= REQUESTS_PER_MINUTE
        /\ admittedInHour[key] <= REQUESTS_PER_HOUR

\* C40: the progress report of a completed conversation is sent at most once
\* for one started conversation, whatever back-button presses, confirmation
\* choices and response arrivals follow
C40_ReportedAtMostOnce ==
    \A i, j \in 1..Len(progressPosts) : i # j => progressPosts[i] # progressPosts[j]

\* a conversation was reported and then left once more through a
\* confirmation modal that had stayed open
C40_Witness ==
    /\ Len(progressPosts) > 0
    /\ \E i, j \in 1..Len(endPosts) :
           i # j /\ endPosts[i] = progressPosts[1] /\ endPosts[j] = progressPosts[1]

====
